---------------------------- MODULE Spec2Model ----------------------------
(***************************************************************************)
(* apiduct: a Bridge (src/api-bridge/main.go) that accepts external HTTP   *)
(* requests and relays them over one PSK-authenticated tunnel connection   *)
(* to an Offramp (src/api-offramp/main.go, and the TLS variant             *)
(* src/unnamed/part_000) which forwards them to a target service.          *)
(*                                                                         *)
(* The model has one process per goroutine of the code:                    *)
(*   - the Bridge's acceptTunnelConnections loop (acc),                    *)
(*   - one Bridge HTTP handler per external request (hs[h]),               *)
(*   - the Offramp's manageTunnelConnection / handleTunnelTraffic loop,    *)
(*     or the TLS variant's main loop and handleConnection (off),          *)
(* and the environment: the network (connections, resets), other clients   *)
(* of the tunnel port, and the target service.                             *)
(***************************************************************************)
EXTENDS Integers, Sequences, FiniteSets, TLC

\* ------------------------------------------------------------------ bounds
\* Number of external HTTP requests (one handler goroutine each).
NumHandlers == 2
\* Number of TCP connections ever dialed to the tunnel port.
MaxConns == 2
\* Largest number of tunnelConn.Write calls one request is emitted in.
MaxChunks == 2
\* Number of distinct pre-shared keys a process may be configured with.
NumPSKs == 2
\* Number of createTunnelConnection calls followed in the supervisor's loop.
MaxAttempts == 8
\* Number of successful health probes counted.
MaxProbes == 2
\* Largest length of a request or response body followed end to end.
MaxBody == 2
\* Largest number of characters after the leading "/" of a request's path.
MaxPath == 2

\* ------------------------------------------------------- program constants
\* Length of the proof read by io.ReadFull (a SHA-256 digest).
HashLen == 32
\* http.StatusBadGateway
StatusBadGateway == 502
\* http.StatusVariantAlsoNegotiates
StatusVariantAlsoNegotiates == 506
\* http.StatusOK, and http.StatusFound (a redirect http.Client follows).
StatusOK == 200
StatusFound == 302
\* The supervisor's wait before the next attempt, in seconds:
\* time.Sleep(5 * time.Second).
RetryDelay == 5

Handlers == 1..NumHandlers
Conns == 1..MaxConns
PSKs == 1..NumPSKs
Nil == 0

VARIABLES
    psk,        \* config.PSK of the Bridge and of the Offramp
    nextConn,   \* id of the next connection the network hands out
    net,        \* per connection: both byte streams and both ends' state
    backlog,    \* listener queue: connections dialed and not yet accepted
    tconn,      \* Bridge: tunnelConn.conn (Nil before the first install)
    mu,         \* Bridge: holder of tunnelConn.mu (Nil: free, else a handler)
    acc,        \* Bridge: position of acceptTunnelConnections
    hs,         \* Bridge: per external request, the position of its handler
    off,        \* Offramp: position of its connection loop
    installs,   \* history: the connections ever stored in tunnelConn.conn
    dropped,    \* history: requests the Offramp read and left unanswered
    sup,        \* Offramp: manageTunnelConnection's loop seen by its waits
    tgt,        \* Offramp: manageTargetConnection, its monitor, the target
    rt,         \* one request followed end to end with its payload
    cmp,        \* one call of compareHashes, byte by byte
    fwd         \* Offramp: one request from the tunnel on its way to the target

vars == <<psk, nextConn, net, backlog, tconn, mu, acc, hs, off, installs,
          dropped, sup, tgt, rt, cmp, fwd>>

\* ----------------------------------------------------------------- digests
\* crypto/sha256 is a library: modelled as an injective map from keys to
\* 32-byte digests (distinct keys differ in every byte).
Sha256(k) == [i \in 1..HashLen |-> (k * 37 + i * 11) % 256]

\* compareHashes' loop from index i: false at the first differing byte.
RECURSIVE compareFrom(_, _, _)
compareFrom(a, b, i) ==
    IF i > Len(a) THEN TRUE
    ELSE IF a[i] # b[i] THEN FALSE
    ELSE compareFrom(a, b, i + 1)

\* Mutant of compareHashes: the loop stops after the first byte.
compareHashesFirstByte(a, b) ==
    IF Len(a) # Len(b) THEN FALSE ELSE (Len(a) = 0 \/ a[1] = b[1])

\* func compareHashes(a, b []byte) bool
compareHashes(a, b) ==
    IF Len(a) # Len(b) THEN FALSE ELSE compareFrom(a, b, 1)

\* A digest with byte i changed.
FlipAt(d, i) == [d EXCEPT ![i] = (d[i] + 1) % 256]

\* Pairs of 32-byte inputs compareHashes is followed on: digests of keys and
\* digests with one byte changed, at every position.
CmpInputs ==
    {Sha256(k) : k \in PSKs}
    \cup {FlipAt(Sha256(k), i) : k \in PSKs, i \in 1..HashLen}

\* Before a call of compareHashes is followed.
CmpIdle == [pc |-> "idle", a |-> <<>>, b |-> <<>>, i |-> 0, n |-> 0,
            result |-> FALSE]

\* What a client of the tunnel port other than the Offramp may present: the
\* digest of any key, a digest wrong in its first or in its last byte only,
\* and proofs shorter than 32 bytes.
PeerProofs ==
    {Sha256(k) : k \in PSKs}
    \cup {FlipAt(Sha256(1), 1), FlipAt(Sha256(1), HashLen)}
    \cup {SubSeq(Sha256(1), 1, HashLen - 1), <<>>}

\* ----------------------------------------------------------------- network
FreshConn ==
    [dialer |-> "none", proof |-> <<>>, wrong |-> TRUE, reply |-> <<>>,
     toOff |-> <<>>, toBridge |-> <<>>,
     bClosed |-> FALSE, oClosed |-> FALSE, killed |-> FALSE]

\* A read at the Bridge end of c with nothing buffered fails (EOF, reset,
\* use of closed connection) instead of blocking.
BridgeReadFails(c) == net[c].bClosed \/ net[c].oClosed \/ net[c].killed
\* Likewise at the client end.
ClientReadFails(c) == net[c].oClosed \/ net[c].bClosed \/ net[c].killed

\* ----------------------------------------------------------------- payload
\* Bodies of at most MaxBody bytes, header lists (one key may carry several
\* values) and the statuses a target answers with.
Bodies == UNION {[1..n -> 0..1] : n \in 0..MaxBody}
HeaderLists == {<<>>, <<<<"X", "a">>>>, <<<<"X", "a">>, <<"X", "b">>>>}
Statuses == {StatusOK, StatusFound}
Responses == [status : Statuses, header : HeaderLists, body : Bodies]
NoResponse == [status |-> 0, header |-> <<>>, body |-> <<>>]

\* Before any request is followed.
RtIdle ==
    [pc |-> "idle", method |-> "", body |-> <<>>, wire |-> <<>>,
     atTarget |-> <<>>, first |-> NoResponse, resp |-> NoResponse,
     out |-> NoResponse]

\* Request targets as they appear on a request line: "/", then at most
\* MaxPath characters of the path, each a plain one or the escape of a
\* question mark, then nothing or "?" and a query.
PathChars == {"a", "%3F"}
RawPaths == UNION {[1..n -> PathChars] : n \in 0..MaxPath}
RawQueries == {<<>>, <<"k">>}
RequestTargets ==
    {<<"/">> \o rp \o (IF q = <<>> THEN <<>> ELSE <<"?">> \o q) :
        rp \in RawPaths, q \in RawQueries}

\* A parsed request with nothing in it, and the state before a request is
\* followed from the tunnel to the target.
NoRequest == [method |-> "", path |-> <<>>, query |-> <<>>, header |-> <<>>]
FwdIdle ==
    [pc |-> "idle", line |-> [method |-> "", target |-> <<>>, header |-> <<>>],
     req |-> NoRequest, targetURL |-> <<>>, targetReq |-> NoRequest,
     atTarget |-> NoRequest]

Init ==
    /\ psk \in [bridge : {1}, offramp : PSKs]
    /\ nextConn = 1
    /\ net = [c \in Conns |-> FreshConn]
    /\ backlog = <<>>
    /\ tconn = Nil
    /\ mu = Nil
    /\ acc = [pc |-> "accept", conn |-> Nil]
    /\ hs = [h \in Handlers |->
                [pc |-> "idle", n |-> 0, sent |-> 0, wconns |-> {},
                 rconn |-> Nil, status |-> 0, resp |-> Nil,
                 born |-> 0, cut |-> FALSE, cancelled |-> FALSE]]
    /\ off = [pc |-> "dial", conn |-> Nil, buf |-> <<>>, req |-> Nil,
              intact |-> TRUE, hpc |-> "none", losses |-> 0]
    /\ installs = {}
    /\ dropped = {}
    /\ sup = [pc |-> "create", attempts |-> 0, waits |-> <<>>]
    /\ tgt = [up |-> TRUE, pc |-> "create", conn |-> "nil", mon |-> "none",
              probes |-> 0]
    /\ rt = RtIdle
    /\ cmp = CmpIdle
    /\ fwd = FwdIdle


\* ------------------------------------------------- Bridge: HTTP handler
\* Outcomes of conn.Write at the Bridge end of c: it fails on a connection the
\* Bridge closed or the network reset; towards a peer that has closed, the
\* bytes are lost, with or without an error.
BridgeWriteOutcomes(c) ==
    IF net[c].bClosed \/ net[c].killed THEN {"error"}
    ELSE IF net[c].oClosed THEN {"lost", "error"}
    ELSE {"sent"}

\* An external request arrives: net/http starts the handler goroutine. Its
\* body decides in how many Write calls r.Write emits it.
HandlerArrive(h) ==
    /\ hs[h].pc = "idle"
    /\ \E n \in 1..MaxChunks :
         hs' = [hs EXCEPT ![h].pc = "check", ![h].n = n,
                          ![h].born = Cardinality(installs)]
    /\ UNCHANGED <<psk, sup, tgt, rt, cmp, fwd, nextConn, net, backlog, tconn, mu, acc, off, installs, dropped>>

\* if !tunnelConn.IsConnected() { http.Error(..., 506); return }
IsConnected == tconn # Nil

\* Mutant of HandlerCheck: the handler goes on to r.Write(tunnelConn)
\* without looking at IsConnected.
HandlerCheckSkipped(h) ==
    /\ hs[h].pc = "check"
    /\ mu = Nil
    /\ hs' = [hs EXCEPT ![h].pc = "write"]
    /\ UNCHANGED <<psk, sup, tgt, rt, cmp, fwd, nextConn, net, backlog, tconn, mu, acc, off, installs, dropped>>

HandlerCheck(h) ==
    /\ hs[h].pc = "check"
    /\ mu = Nil
    /\ hs' = IF IsConnected
             THEN [hs EXCEPT ![h].pc = "write"]
             ELSE [hs EXCEPT ![h].pc = "done", ![h].n = 0, ![h].sent = 0,
                             ![h].status = StatusVariantAlsoNegotiates]
    /\ UNCHANGED <<psk, sup, tgt, rt, cmp, fwd, nextConn, net, backlog, tconn, mu, acc, off, installs, dropped>>

\* The connection a TunnelConnection method acts on: t.conn, read under t.mu
\* at the time of the call.
CurrentConn == tconn

\* Mutant of HandlerWrite: a failed write forgets the connection.
HandlerWriteResets(h) ==
    /\ hs[h].pc = "write"
    /\ mu = Nil
    /\ LET c == CurrentConn
           chunk == [req |-> h, idx |-> hs[h].sent + 1, n |-> hs[h].n]
       IN \E o \in BridgeWriteOutcomes(c) :
            IF o = "error"
            THEN /\ hs' = [hs EXCEPT ![h].pc = "done", ![h].n = 0, ![h].sent = 0,
                                     ![h].status = StatusBadGateway]
                 /\ net' = net
                 /\ tconn' = Nil
            ELSE /\ net' = IF o = "sent"
                           THEN [net EXCEPT ![c].toOff = Append(@, chunk)]
                           ELSE net
                 /\ hs' = [hs EXCEPT
                             ![h].sent = @ + 1,
                             ![h].wconns = @ \cup {c},
                             ![h].pc = IF hs[h].sent + 1 = hs[h].n
                                       THEN "read" ELSE "write"]
                 /\ tconn' = tconn
    /\ UNCHANGED <<psk, sup, tgt, rt, cmp, fwd, nextConn, backlog, mu, acc, off, installs, dropped>>

\* One tunnelConn.Write call of r.Write(tunnelConn): lock, t.conn.Write,
\* unlock. An error ends the handler with 502.
HandlerWrite(h) ==
    /\ hs[h].pc = "write"
    /\ mu = Nil
    /\ LET c == CurrentConn
           chunk == [req |-> h, idx |-> hs[h].sent + 1, n |-> hs[h].n]
       IN \E o \in BridgeWriteOutcomes(c) :
            IF o = "error"
            THEN /\ hs' = [hs EXCEPT ![h].pc = "done", ![h].n = 0, ![h].sent = 0,
                                     ![h].status = StatusBadGateway]
                 /\ net' = net
            ELSE /\ net' = IF o = "sent"
                           THEN [net EXCEPT ![c].toOff = Append(@, chunk)]
                           ELSE net
                 /\ hs' = [hs EXCEPT
                             ![h].sent = @ + 1,
                             ![h].wconns = @ \cup {c},
                             ![h].pc = IF hs[h].sent + 1 = hs[h].n
                                       THEN "read" ELSE "write"]
    /\ UNCHANGED <<psk, sup, tgt, rt, cmp, fwd, nextConn, backlog, tconn, mu, acc, off, installs, dropped>>

\* tunnelConn.Read, first half: t.mu.Lock() and the evaluation of t.conn.
\* The mutex stays held while t.conn.Read blocks.
HandlerReadLock(h) ==
    /\ hs[h].pc = "read"
    /\ mu = Nil
    /\ mu' = h
    /\ hs' = [hs EXCEPT ![h].pc = "reading", ![h].rconn = CurrentConn]
    /\ UNCHANGED <<psk, sup, tgt, rt, cmp, fwd, nextConn, net, backlog, tconn, acc, off, installs, dropped>>

\* tunnelConn.Read, second half: t.conn.Read returns and t.mu is unlocked.
\* The bufio.Reader takes whatever has arrived (k responses' worth);
\* http.ReadResponse parses the first and the rest is discarded with the
\* reader. With nothing buffered, a failed connection gives an error (502).
HandlerReadReturn(h) ==
    /\ hs[h].pc = "reading"
    /\ LET c == hs[h].rconn
       IN IF net[c].bClosed
          THEN /\ hs' = [hs EXCEPT ![h].pc = "done", ![h].n = 0, ![h].sent = 0,
                                   ![h].status = StatusBadGateway]
               /\ net' = net
          ELSE IF net[c].toBridge # <<>>
          THEN \E k \in 1..Len(net[c].toBridge) :
                 /\ hs' = [hs EXCEPT ![h].pc = "done", ![h].n = 0, ![h].sent = 0,
                                     ![h].status = 200,
                                     ![h].resp = net[c].toBridge[1].req]
                 /\ net' = [net EXCEPT ![c].toBridge =
                              SubSeq(@, k + 1, Len(@))]
          ELSE /\ BridgeReadFails(c)
               /\ hs' = [hs EXCEPT ![h].pc = "done", ![h].n = 0, ![h].sent = 0,
                                   ![h].status = StatusBadGateway]
               /\ net' = net
    /\ mu' = Nil
    /\ UNCHANGED <<psk, sup, tgt, rt, cmp, fwd, nextConn, backlog, tconn, acc, off, installs, dropped>>

\* The external client gives up on its request while the handler waits for
\* the response: net/http cancels r.Context(). The handler never looks at
\* the context and nothing is sent on the tunnel.
ClientCancel(h) ==
    /\ hs[h].pc = "reading"
    /\ ~hs[h].cancelled
    /\ hs' = [hs EXCEPT ![h].cancelled = TRUE]
    /\ UNCHANGED <<psk, sup, tgt, rt, cmp, fwd, nextConn, net, backlog, tconn, mu, acc, off, installs, dropped>>

\* --------------------------------------- Bridge: acceptTunnelConnections
\* conn, err := listener.Accept()
AccAccept ==
    /\ acc.pc = "accept"
    /\ backlog # <<>>
    /\ acc' = [pc |-> "readProof", conn |-> Head(backlog)]
    /\ backlog' = Tail(backlog)
    /\ UNCHANGED <<psk, sup, tgt, rt, cmp, fwd, nextConn, net, tconn, mu, hs, off, installs, dropped>>

\* What the acceptor expects: sha256.Sum256([]byte(config.PSK)).
ExpectedHash == Sha256(psk.bridge)

\* Whether the proof read from a connection passes the verification.
Verify(pskHash) == compareHashes(pskHash, ExpectedHash)

\* Mutant of AccReadProof: turning a connection away also closes the
\* installed connection.
AccReadProofDropsInstalled ==
    /\ acc.pc = "readProof"
    /\ LET c == acc.conn
           closed == [net EXCEPT ![c].bClosed = TRUE, ![c].proof = <<>>]
           reject == /\ net' = IF tconn # Nil
                               THEN [closed EXCEPT ![tconn].bClosed = TRUE]
                               ELSE closed
                     /\ acc' = [pc |-> "accept", conn |-> Nil]
       IN IF net[c].killed
          THEN reject
          ELSE IF Len(net[c].proof) >= HashLen
          THEN IF Verify(SubSeq(net[c].proof, 1, HashLen))
               THEN /\ acc' = [acc EXCEPT !.pc = "reply"]
                    /\ net' = [net EXCEPT ![c].proof =
                                 SubSeq(@, HashLen + 1, Len(@))]
               ELSE reject
          ELSE /\ net[c].oClosed
               /\ reject
    /\ UNCHANGED <<psk, sup, tgt, rt, cmp, fwd, nextConn, backlog, tconn, mu, hs, off, installs, dropped>>

\* io.ReadFull(conn, pskHash) and the verification. ReadFull blocks until 32
\* bytes have arrived or the connection fails; a short read or a wrong proof
\* closes the connection and continues the accept loop.
AccReadProof ==
    /\ acc.pc = "readProof"
    /\ LET c == acc.conn
           reject == /\ net' = [net EXCEPT ![c].bClosed = TRUE,
                                            ![c].proof = <<>>]
                     /\ acc' = [pc |-> "accept", conn |-> Nil]
       IN IF net[c].killed
          THEN reject
          ELSE IF Len(net[c].proof) >= HashLen
          THEN IF Verify(SubSeq(net[c].proof, 1, HashLen))
               THEN /\ acc' = [acc EXCEPT !.pc = "reply"]
                    /\ net' = [net EXCEPT ![c].proof =
                                 SubSeq(@, HashLen + 1, Len(@))]
               ELSE reject
          ELSE /\ net[c].oClosed
               /\ reject
    /\ UNCHANGED <<psk, sup, tgt, rt, cmp, fwd, nextConn, backlog, tconn, mu, hs, off, installs, dropped>>

\* conn.Write([]byte{0}): on error close and continue.
AccReply ==
    /\ acc.pc = "reply"
    /\ LET c == acc.conn
       IN \E o \in BridgeWriteOutcomes(c) :
            IF o = "error"
            THEN /\ net' = [net EXCEPT ![c].bClosed = TRUE]
                 /\ acc' = [pc |-> "accept", conn |-> Nil]
            ELSE /\ net' = IF o = "sent"
                           THEN [net EXCEPT ![c].reply = Append(@, 0)]
                           ELSE net
                 /\ acc' = [acc EXCEPT !.pc = "store"]
    /\ UNCHANGED <<psk, sup, tgt, rt, cmp, fwd, nextConn, backlog, tconn, mu, hs, off, installs, dropped>>

\* Mutant of AccStore: the previous connection is left open.
AccStoreNoClose ==
    /\ acc.pc = "store"
    /\ mu = Nil
    /\ tconn' = acc.conn
    /\ installs' = installs \cup {acc.conn}
    /\ acc' = [pc |-> "accept", conn |-> Nil]
    /\ UNCHANGED <<psk, sup, tgt, rt, cmp, fwd, nextConn, net, backlog, mu, hs, off, dropped>>

\* tunnelConn.mu.Lock(); close the previous connection; tunnelConn.conn =
\* conn; Unlock. The step waits for the mutex.
AccStore ==
    /\ acc.pc = "store"
    /\ mu = Nil
    /\ net' = IF tconn # Nil
              THEN [net EXCEPT ![tconn].bClosed = TRUE]
              ELSE net
    /\ tconn' = acc.conn
    /\ installs' = installs \cup {acc.conn}
    /\ acc' = [pc |-> "accept", conn |-> Nil]
    /\ UNCHANGED <<psk, sup, tgt, rt, cmp, fwd, nextConn, backlog, mu, hs, off, dropped>>

\* ------------------------------------------------------------ environment
\* The Offramp's connection is reset by the network: both ends see an error
\* and what was buffered is gone. Requests in flight on it are marked. (A
\* reset of another client's connection acts on the Bridge as PeerClose.)
NetKill(c) ==
    /\ net[c].dialer = "offramp"
    /\ ~net[c].killed /\ ~net[c].bClosed /\ ~net[c].oClosed
    /\ net' = [net EXCEPT ![c].killed = TRUE, ![c].toOff = <<>>,
                          ![c].toBridge = <<>>, ![c].reply = <<>>,
                          ![c].proof = <<>>]
    /\ hs' = [h \in Handlers |->
                IF hs[h].pc \in {"write", "read", "reading"} /\ c \in hs[h].wconns
                THEN [hs[h] EXCEPT !.cut = TRUE]
                ELSE hs[h]]
    /\ UNCHANGED <<psk, sup, tgt, rt, cmp, fwd, nextConn, backlog, tconn, mu, acc, off, installs, dropped>>

\* Some other client dials the tunnel port and sends what it has for a proof.
\* wrong records that the bytes a connection has delivered as its proof (none
\* at first) are not the digest of the Bridge's key.
PeerDial ==
    /\ nextConn <= MaxConns
    /\ \E p \in PeerProofs :
         net' = [net EXCEPT ![nextConn].dialer = "peer",
                            ![nextConn].proof = p,
                            ![nextConn].wrong = (p # Sha256(psk.bridge))]
    /\ backlog' = Append(backlog, nextConn)
    /\ nextConn' = nextConn + 1
    /\ UNCHANGED <<psk, sup, tgt, rt, cmp, fwd, tconn, mu, acc, hs, off, installs, dropped>>

\* ... and later closes its end.
PeerClose(c) ==
    /\ net[c].dialer = "peer"
    /\ ~net[c].oClosed
    /\ net' = [net EXCEPT ![c].oClosed = TRUE]
    /\ UNCHANGED <<psk, sup, tgt, rt, cmp, fwd, nextConn, backlog, tconn, mu, acc, hs, off, installs, dropped>>


\* ------------------------------------------------- adversarial network
\* The id of a request that no Bridge handler wrote.
Forged == NumHandlers + 1

\* The backlog without connection c.
RECURSIVE Without(_, _)
Without(q, c) ==
    IF q = <<>> THEN <<>>
    ELSE IF Head(q) = c THEN Without(Tail(q), c)
    ELSE <<Head(q)>> \o Without(Tail(q), c)

InBacklog(c) == \E i \in 1..Len(backlog) : backlog[i] = c

\* A connection the Offramp dialed that never reached the Bridge: it is not
\* queued at the listener, not at the acceptor, and the Bridge has neither
\* closed nor stored it. Its far end is a party that does not hold the PSK.
Intercepted(c) ==
    /\ net[c].dialer = "offramp"
    /\ ~InBacklog(c) /\ acc.conn # c
    /\ ~net[c].bClosed /\ c \notin installs

\* The Offramp's net.Dial to the Bridge's address is answered by somebody
\* else: the connection never arrives at the Bridge's listener.
NetIntercept(c) ==
    /\ net[c].dialer = "offramp"
    /\ InBacklog(c)
    /\ backlog' = Without(backlog, c)
    /\ UNCHANGED <<psk, sup, tgt, rt, cmp, fwd, nextConn, net, tconn, mu, acc, hs, off, installs, dropped>>

\* That party answers the handshake with the byte 0, whatever was sent.
FakeStatus(c) ==
    /\ Intercepted(c)
    /\ off.conn = c /\ off.pc \in {"sendPSK", "readStatus"}
    /\ net[c].reply = <<>>
    /\ net' = [net EXCEPT ![c].reply = <<0>>]
    /\ UNCHANGED <<psk, sup, tgt, rt, cmp, fwd, nextConn, backlog, tconn, mu, acc, hs, off, installs, dropped>>

\* ... and then sends an HTTP request of its own (one per connection is
\* enough: it sends no other once that one was answered or dropped).
FakeRequest(c) ==
    /\ Intercepted(c)
    /\ off.conn = c /\ off.pc = "readReq"
    /\ net[c].toOff = <<>> /\ net[c].toBridge = <<>> /\ Forged \notin dropped
    /\ net' = [net EXCEPT ![c].toOff =
                  <<[req |-> Forged, idx |-> 1, n |-> 1]>>]
    /\ UNCHANGED <<psk, sup, tgt, rt, cmp, fwd, nextConn, backlog, tconn, mu, acc, hs, off, installs, dropped>>

\* ---------------------------------- Offramp (api-offramp): tunnel supervisor
\* createTunnelConnection has failed: manageTunnelConnection sleeps.
OffIdle ==
    [off EXCEPT !.pc = "sleep", !.conn = Nil, !.buf = <<>>, !.req = Nil,
                !.intact = TRUE]
\* handleTunnelTraffic has returned (losses counts the established
\* connections lost so far): manageTunnelConnection sleeps.
OffLost == [OffIdle EXCEPT !.losses = @ + 1]

\* Outcomes of conn.Write at the client end of c.
ClientWriteOutcomes(c) ==
    IF net[c].oClosed \/ net[c].killed THEN {"error"}
    ELSE IF net[c].bClosed THEN {"lost", "error"}
    ELSE {"sent"}

\* createTunnelConnection: net.Dial. It fails when the Bridge cannot be
\* reached (here also once the network's connection ids are used up).
OffDial ==
    /\ off.pc = "dial"
    /\ \/ /\ nextConn <= MaxConns
          /\ net' = [net EXCEPT ![nextConn].dialer = "offramp"]
          /\ backlog' = Append(backlog, nextConn)
          /\ off' = [off EXCEPT !.pc = "sendPSK", !.conn = nextConn]
          /\ nextConn' = nextConn + 1
       \/ /\ off' = OffIdle
          /\ UNCHANGED <<net, backlog, nextConn>>
    /\ UNCHANGED <<psk, sup, tgt, rt, cmp, fwd, tconn, mu, acc, hs, installs, dropped>>

\* createTunnelConnection: conn.Write(pskHash[:]) with
\* pskHash := sha256.Sum256([]byte(config.PSK)).
OffSendPSK ==
    /\ off.pc = "sendPSK"
    /\ LET c == off.conn
       IN \E o \in ClientWriteOutcomes(c) :
            IF o = "error"
            THEN /\ net' = [net EXCEPT ![c].oClosed = TRUE]
                 /\ off' = OffIdle
            ELSE /\ net' = IF o = "sent"
                           THEN [net EXCEPT
                                   ![c].proof = Sha256(psk.offramp),
                                   ![c].wrong = (Sha256(psk.offramp)
                                                 # Sha256(psk.bridge))]
                           ELSE net
                 /\ off' = [off EXCEPT !.pc = "readStatus"]
    /\ UNCHANGED <<psk, sup, tgt, rt, cmp, fwd, nextConn, backlog, tconn, mu, acc, hs, installs, dropped>>

\* Mutant of OffReadStatus: a failed handshake is retried on the same
\* connection, without closing it and without waiting.
OffReadStatusRetrySame ==
    /\ off.pc = "readStatus"
    /\ LET c == off.conn
           fail == /\ net' = net
                   /\ off' = [off EXCEPT !.pc = "sendPSK"]
       IN IF net[c].killed
          THEN fail
          ELSE IF net[c].reply # <<>>
          THEN IF Head(net[c].reply) = 0
               THEN /\ net' = [net EXCEPT ![c].reply = Tail(@)]
                    /\ off' = [off EXCEPT !.pc = "readReq"]
               ELSE fail
          ELSE /\ net[c].bClosed
               /\ fail
    /\ UNCHANGED <<psk, sup, tgt, rt, cmp, fwd, nextConn, backlog, tconn, mu, acc, hs, installs, dropped>>

\* createTunnelConnection: io.ReadFull(conn, response); a read error or a
\* nonzero status closes the connection and fails the attempt. On success
\* manageTunnelConnection stores the connection and enters
\* handleTunnelTraffic.
OffReadStatus ==
    /\ off.pc = "readStatus"
    /\ LET c == off.conn
           fail == /\ net' = [net EXCEPT ![c].oClosed = TRUE]
                   /\ off' = OffIdle
       IN IF net[c].killed
          THEN fail
          ELSE IF net[c].reply # <<>>
          THEN IF Head(net[c].reply) = 0
               THEN /\ net' = [net EXCEPT ![c].reply = Tail(@)]
                    /\ off' = [off EXCEPT !.pc = "readReq"]
               ELSE fail
          ELSE /\ net[c].bClosed
               /\ fail
    /\ UNCHANGED <<psk, sup, tgt, rt, cmp, fwd, nextConn, backlog, tconn, mu, acc, hs, installs, dropped>>

\* What http.ReadRequest makes of the bytes its bufio.Reader holds: nothing
\* yet, a malformed request (the bytes do not start at a request's first
\* byte), or a complete request (as many chunks as its head announces).
Malformed(buf) == buf # <<>> /\ buf[1].idx # 1
Complete(buf) == buf # <<>> /\ buf[1].idx = 1 /\ Len(buf) >= buf[1].n
\* The request is the one its first chunk starts; it is intact when all its
\* chunks are its own, in order.
Intact(buf) == \A i \in 1..buf[1].n : buf[i].req = buf[1].req /\ buf[i].idx = i

\* Mutant of OffReadRequest: handleTunnelTraffic without its deferred
\* conn.Close().
OffReadRequestNoClose ==
    /\ off.pc = "readReq"
    /\ LET c == off.conn
           return == /\ net' = net
                     /\ off' = OffLost
       IN IF net[c].toOff # <<>>
          THEN \E k \in 1..Len(net[c].toOff) :
                 LET buf == off.buf \o SubSeq(net[c].toOff, 1, k)
                     rest == SubSeq(net[c].toOff, k + 1, Len(net[c].toOff))
                 IN IF Malformed(buf)
                    THEN /\ net' = [net EXCEPT ![c].toOff = rest]
                         /\ off' = OffLost
                    ELSE /\ net' = [net EXCEPT ![c].toOff = rest]
                         /\ off' = IF Complete(buf)
                                   THEN [off EXCEPT !.pc = "dispatch",
                                                    !.buf = <<>>,
                                                    !.req = buf[1].req,
                                                    !.intact = Intact(buf)]
                                   ELSE [off EXCEPT !.buf = buf]
          ELSE /\ ClientReadFails(c)
               /\ return
    /\ UNCHANGED <<psk, sup, tgt, rt, cmp, fwd, nextConn, backlog, tconn, mu, acc, hs, installs, dropped>>

\* handleTunnelTraffic: http.ReadRequest(bufio.NewReader(conn)). One
\* conn.Read takes what has arrived (k chunks); a read error or a malformed
\* request returns, and the deferred conn.Close() and
\* manageTunnelConnection's sleep follow.
OffReadRequest ==
    /\ off.pc = "readReq"
    /\ LET c == off.conn
           return == /\ net' = [net EXCEPT ![c].oClosed = TRUE]
                     /\ off' = OffLost
       IN IF net[c].toOff # <<>>
          THEN \E k \in 1..Len(net[c].toOff) :
                 LET buf == off.buf \o SubSeq(net[c].toOff, 1, k)
                     rest == SubSeq(net[c].toOff, k + 1, Len(net[c].toOff))
                 IN IF Malformed(buf)
                    THEN /\ net' = [net EXCEPT ![c].oClosed = TRUE,
                                               ![c].toOff = rest]
                         /\ off' = OffLost
                    ELSE /\ net' = [net EXCEPT ![c].toOff = rest]
                         /\ off' = IF Complete(buf)
                                   THEN [off EXCEPT !.pc = "dispatch",
                                                    !.buf = <<>>,
                                                    !.req = buf[1].req,
                                                    !.intact = Intact(buf)]
                                   ELSE [off EXCEPT !.buf = buf]
          ELSE /\ ClientReadFails(c)
               /\ return
    /\ UNCHANGED <<psk, sup, tgt, rt, cmp, fwd, nextConn, backlog, tconn, mu, acc, hs, installs, dropped>>

\* What handleTunnelTraffic does when the dispatch to the target fails
\* (http.NewRequest or client.Do returns an error): log and continue with the
\* next request; nothing is written to the tunnel.
OnDispatchError(c, req) ==
    /\ net' = net
    /\ dropped' = dropped \cup {req}

\* handleTunnelTraffic: build the target request, client.Do (30 s timeout),
\* resp.Write(conn). A reachable target answers or fails, an unreachable one
\* fails; a failed resp.Write is logged and the loop continues. targetConn
\* is not consulted.
OffDispatch ==
    /\ off.pc = "dispatch"
    /\ LET c == off.conn
       IN \/ OnDispatchError(c, off.req)
          \/ /\ tgt.up
             /\ \E o \in ClientWriteOutcomes(c) :
                  /\ net' = IF o = "sent"
                            THEN [net EXCEPT ![c].toBridge =
                                     Append(@, [req |-> off.req])]
                            ELSE net
                  /\ dropped' = dropped
    /\ off' = [off EXCEPT !.pc = "readReq", !.req = Nil, !.intact = TRUE]
    /\ UNCHANGED <<psk, sup, tgt, rt, cmp, fwd, nextConn, backlog, tconn, mu, acc, hs, installs>>

\* manageTunnelConnection: time.Sleep(5 * time.Second), then the next attempt.
OffSleep ==
    /\ off.pc = "sleep"
    /\ off' = [off EXCEPT !.pc = "dial"]
    /\ UNCHANGED <<psk, sup, tgt, rt, cmp, fwd, nextConn, net, backlog, tconn, mu, acc, hs, installs, dropped>>

\* ------------------- Offramp: manageTunnelConnection's loop and its waits
\* The loop of manageTunnelConnection with the outcome of each
\* createTunnelConnection call and the end of handleTunnelTraffic as inputs.
\* sup.waits is the sequence of waits slept since the last successful
\* authentication (since the start, before the first one).
\*
\* Mutant of SleepFor: the wait shrinks after the first one.
SleepForShrinking(k) == IF k = 0 THEN RetryDelay ELSE RetryDelay - 1

\* The duration passed to time.Sleep after k waits in a row: the same
\* literal at both call sites, whatever k is.
SleepFor(k) == RetryDelay

OtherVars == <<psk, tgt, rt, cmp, fwd, nextConn, net, backlog, tconn, mu, acc, hs, off, installs, dropped>>

\* conn, err := createTunnelConnection(config) returns an error.
SupCreateFails ==
    /\ sup.pc = "create"
    /\ sup.attempts < MaxAttempts
    /\ sup' = [sup EXCEPT !.pc = "sleepFailed", !.attempts = @ + 1]
    /\ UNCHANGED OtherVars

\* createTunnelConnection returns an authenticated connection; it is stored
\* and handleTunnelTraffic starts.
SupCreateSucceeds ==
    /\ sup.pc = "create"
    /\ sup.attempts < MaxAttempts
    /\ sup' = [sup EXCEPT !.pc = "traffic", !.attempts = @ + 1,
                          !.waits = <<>>]
    /\ UNCHANGED OtherVars

\* handleTunnelTraffic returns: the connection was closed.
SupTrafficReturns ==
    /\ sup.pc = "traffic"
    /\ sup' = [sup EXCEPT !.pc = "sleepClosed"]
    /\ UNCHANGED OtherVars

\* time.Sleep(5 * time.Second); continue  (after a failed attempt)
SupSleepFailed ==
    /\ sup.pc = "sleepFailed"
    /\ sup' = [sup EXCEPT !.pc = "create",
                          !.waits = Append(@, SleepFor(Len(@)))]
    /\ UNCHANGED OtherVars

\* time.Sleep(5 * time.Second)  (after handleTunnelTraffic has returned)
SupSleepClosed ==
    /\ sup.pc = "sleepClosed"
    /\ sup' = [sup EXCEPT !.pc = "create",
                          !.waits = Append(@, SleepFor(Len(@)))]
    /\ UNCHANGED OtherVars

\* --------------- Offramp: manageTargetConnection and its health monitor
TunnelVars == <<psk, sup, rt, cmp, fwd, nextConn, net, backlog, tconn, mu, acc, hs, off, installs, dropped>>

\* The target service goes down or comes back.
TargetFlip ==
    /\ tgt' = [tgt EXCEPT !.up = ~@]
    /\ UNCHANGED TunnelVars

\* manageTargetConnection: createTargetConnection; on failure sleep and
\* retry; on success store the connection, start the health check goroutine
\* and block on <-make(chan struct{}), a channel nobody closes or sends on.
TargetCreate ==
    /\ tgt.pc = "create"
    /\ tgt' = IF tgt.up
              THEN [tgt EXCEPT !.pc = "blocked", !.conn = "open",
                               !.mon = "ticking"]
              ELSE [tgt EXCEPT !.pc = "sleep"]
    /\ UNCHANGED TunnelVars

\* time.Sleep(5 * time.Second); continue
TargetSleep ==
    /\ tgt.pc = "sleep"
    /\ tgt' = [tgt EXCEPT !.pc = "create"]
    /\ UNCHANGED TunnelVars

\* What the health check goroutine does when a probe fails (dial error,
\* write error, read error or timeout, status outside 2xx):
\* targetConn.Close(); return.
OnProbeFailure == [tgt EXCEPT !.conn = "closed", !.mon = "returned"]

\* One tick of the health check goroutine: dial the target, HEAD /, read the
\* response with a 5 s deadline. A 2xx status continues the loop.
Probe ==
    /\ tgt.mon = "ticking"
    /\ \/ /\ tgt.up
          /\ tgt.probes < MaxProbes
          /\ tgt' = [tgt EXCEPT !.probes = @ + 1]
       \/ tgt' = OnProbeFailure
    /\ UNCHANGED TunnelVars

\* ------------------------- one request end to end, with its payload
\* A single request over an established tunnel, nothing else in flight.
\* The wire form is what Request.Write / Response.Write emit: the head, the
\* header lines, the body's length and the body; ReadRequest and
\* ReadResponse parse it back, taking as many body bytes as announced.
EncodeRequest(method, body) == <<method, Len(body)>> \o body
DecodeRequest(w) == [method |-> w[1], body |-> SubSeq(w, 3, 2 + w[2])]

EncodeResponse(r) ==
    <<r.status, Len(r.header)>> \o r.header \o <<Len(r.body)>> \o r.body
DecodeResponse(w) ==
    LET nh == w[2]
        nb == w[3 + nh]
    IN [status |-> w[1],
        header |-> SubSeq(w, 3, 2 + nh),
        body |-> SubSeq(w, 4 + nh, 3 + nh + nb)]

\* for key, values := range resp.Header { for _, value := range values {
\* w.Header().Add(key, value) } }
RECURSIVE CopyHeader(_, _)
CopyHeader(src, dst) ==
    IF src = <<>> THEN dst
    ELSE CopyHeader(Tail(src), Append(dst, Head(src)))

\* What client.Do returns for a client with no CheckRedirect: the target's
\* answer, or, when that answer is a redirect, the answer to the request
\* the client then makes on its own to the redirect's location.
ClientDo(first, second) ==
    IF first.status = StatusFound THEN second ELSE first

RtFrame == <<psk, sup, tgt, cmp, fwd, nextConn, net, backlog, tconn, mu, acc, hs, off, installs, dropped>>

\* The external caller sends a request with a body.
RtArrive ==
    /\ rt.pc = "idle"
    /\ \E m \in {"GET", "POST"}, b \in Bodies :
         rt' = [RtIdle EXCEPT !.pc = "forward", !.method = m, !.body = b]
    /\ UNCHANGED RtFrame

\* Bridge handler: r.Write(tunnelConn).
RtForward ==
    /\ rt.pc = "forward"
    /\ rt' = [rt EXCEPT !.pc = "dispatch",
                        !.wire = EncodeRequest(rt.method, rt.body)]
    /\ UNCHANGED RtFrame

\* handleTunnelTraffic: http.ReadRequest, http.NewRequest(req.Method,
\* targetURL, req.Body), client.Do(targetReq). The target receives the body
\* and answers.
RtDispatch ==
    /\ rt.pc = "dispatch"
    /\ LET req == DecodeRequest(rt.wire)
       IN \E first \in Responses :
            \E second \in {r \in Responses : r.status = StatusOK} :
              rt' = [rt EXCEPT !.pc = "respond", !.wire = <<>>,
                               !.atTarget = req.body,
                               !.first = first,
                               !.resp = ClientDo(first, second)]
    /\ UNCHANGED RtFrame

\* handleTunnelTraffic: resp.Write(conn).
RtRespond ==
    /\ rt.pc = "respond"
    /\ rt' = [rt EXCEPT !.pc = "return", !.wire = EncodeResponse(rt.resp)]
    /\ UNCHANGED RtFrame

\* Bridge handler: http.ReadResponse, copy the headers, WriteHeader,
\* io.Copy of the body.
RtReturn ==
    /\ rt.pc = "return"
    /\ LET r == DecodeResponse(rt.wire)
       IN rt' = [rt EXCEPT !.pc = "done", !.wire = <<>>,
                           !.out = [status |-> r.status,
                                    header |-> CopyHeader(r.header, <<>>),
                                    body |-> r.body]]
    /\ UNCHANGED RtFrame

\* ------------------- Offramp: from the tunnel's request to the target's
FwdFrame == <<psk, sup, tgt, rt, cmp, nextConn, net, backlog, tconn, mu, acc, hs, off, installs, dropped>>

\* net/url, unescaping of a path: an escape becomes the character it stands
\* for.
Unescape(t) == [i \in 1..Len(t) |-> IF t[i] = "%3F" THEN "?" ELSE t[i]]

\* net/url, escaping of a path (EscapedPath): a question mark in the path is
\* written as its escape.
EscapePath(t) == [i \in 1..Len(t) |-> IF t[i] = "?" THEN "%3F" ELSE t[i]]

\* Position of the first "?" of a URL's text, 0 when it has none.
FirstQuery(t) ==
    IF \E i \in 1..Len(t) : t[i] = "?"
    THEN CHOOSE i \in 1..Len(t) :
             t[i] = "?" /\ \A j \in 1..(i - 1) : t[j] # "?"
    ELSE 0

\* url.ParseRequestURI / url.Parse on a path with an optional query: what
\* precedes the first "?" is the path, held unescaped in URL.Path; what
\* follows it is URL.RawQuery, held as written.
ParseTarget(t) ==
    LET q == FirstQuery(t)
    IN IF q = 0
       THEN [path |-> Unescape(t), query |-> <<>>]
       ELSE [path |-> Unescape(SubSeq(t, 1, q - 1)),
             query |-> SubSeq(t, q + 1, Len(t))]

\* URL.RequestURI(): the escaped path, and "?" with the query when there is
\* one.
RequestURI(u) ==
    EscapePath(u.path)
    \o (IF u.query = <<>> THEN <<>> ELSE <<"?">> \o u.query)

\* fmt.Sprintf("http://%s:%d%s", config.TargetHost, config.TargetPort,
\* req.URL.Path): scheme and authority, then the path as URL.Path holds it.
TargetURL(path) == <<"http://target">> \o path

\* http.NewRequest(method, url, body): the URL is parsed again from its
\* text; the new request starts with no header.
NewRequest(method, url) ==
    LET u == ParseTarget(Tail(url))
    IN [method |-> method, path |-> u.path, query |-> u.query,
        header |-> <<>>]

\* A request line and headers arrive on the tunnel, as the Bridge's r.Write
\* emitted them.
FwdArrive ==
    /\ fwd.pc = "idle"
    /\ \E m \in {"GET", "POST"}, t \in RequestTargets, h \in HeaderLists :
         fwd' = [FwdIdle EXCEPT !.pc = "read",
                                !.line = [method |-> m, target |-> t,
                                          header |-> h]]
    /\ UNCHANGED FwdFrame

\* req, err := http.ReadRequest(bufio.NewReader(conn))
FwdReadRequest ==
    /\ fwd.pc = "read"
    /\ LET u == ParseTarget(fwd.line.target)
       IN fwd' = [fwd EXCEPT !.pc = "build",
                             !.req = [method |-> fwd.line.method,
                                      path |-> u.path, query |-> u.query,
                                      header |-> fwd.line.header]]
    /\ UNCHANGED FwdFrame

\* targetURL := fmt.Sprintf(..., req.URL.Path);
\* targetReq, err := http.NewRequest(req.Method, targetURL, req.Body)
FwdNewRequest ==
    /\ fwd.pc = "build"
    /\ LET url == TargetURL(fwd.req.path)
       IN fwd' = [fwd EXCEPT !.pc = "copy", !.targetURL = url,
                             !.targetReq = NewRequest(fwd.req.method, url)]
    /\ UNCHANGED FwdFrame

\* for key, values := range req.Header { for _, value := range values {
\* targetReq.Header.Add(key, value) } }
FwdCopyHeader ==
    /\ fwd.pc = "copy"
    /\ fwd' = [fwd EXCEPT !.pc = "do",
                          !.targetReq.header =
                              CopyHeader(fwd.req.header, fwd.targetReq.header)]
    /\ UNCHANGED FwdFrame

\* client.Do(targetReq): the client writes the request line from
\* targetReq.URL and the headers; the target parses what it receives.
FwdDo ==
    /\ fwd.pc = "do"
    /\ LET u == ParseTarget(RequestURI(fwd.targetReq))
       IN fwd' = [fwd EXCEPT !.pc = "done",
                             !.atTarget = [method |-> fwd.targetReq.method,
                                           path |-> u.path,
                                           query |-> u.query,
                                           header |-> fwd.targetReq.header]]
    /\ UNCHANGED FwdFrame

\* ------------------------------------- compareHashes, one byte at a time
CmpFrame == <<psk, sup, tgt, rt, fwd, nextConn, net, backlog, tconn, mu, acc, hs, off, installs, dropped>>

\* compareHashes(pskHash, expectedHash[:]) is called: the length test, then
\* the loop starts at the first byte. cmp.n counts the byte comparisons.
CmpCall ==
    /\ cmp.pc = "idle"
    /\ \E a \in CmpInputs : \E k \in PSKs :
         LET b == Sha256(k)
         IN cmp' = IF Len(a) # Len(b)
                   THEN [CmpIdle EXCEPT !.pc = "done", !.a = a, !.b = b]
                   ELSE [CmpIdle EXCEPT !.pc = "loop", !.a = a, !.b = b,
                                        !.i = 1]
    /\ UNCHANGED CmpFrame

\* One iteration of for i := range a { if a[i] != b[i] { return false } },
\* and return true after the last one.
CmpStep ==
    /\ cmp.pc = "loop"
    /\ cmp' = IF cmp.a[cmp.i] # cmp.b[cmp.i]
              THEN [cmp EXCEPT !.pc = "done", !.n = @ + 1, !.result = FALSE]
              ELSE IF cmp.i = Len(cmp.a)
              THEN [cmp EXCEPT !.pc = "done", !.n = @ + 1, !.result = TRUE]
              ELSE [cmp EXCEPT !.i = @ + 1, !.n = @ + 1]
    /\ UNCHANGED CmpFrame

\* ------------------------------- Offramp, TLS variant (unnamed/part_000)
\* main's connection loop: tls.Dial; on failure sleep and retry.
TlsDial ==
    /\ off.pc = "dial"
    /\ \/ /\ nextConn <= MaxConns
          /\ net' = [net EXCEPT ![nextConn].dialer = "offramp"]
          /\ backlog' = Append(backlog, nextConn)
          /\ off' = [off EXCEPT !.pc = "sendPSK", !.conn = nextConn]
          /\ nextConn' = nextConn + 1
       \/ /\ off' = [off EXCEPT !.pc = "sleep"]
          /\ UNCHANGED <<net, backlog, nextConn>>
    /\ UNCHANGED <<psk, sup, tgt, rt, cmp, fwd, tconn, mu, acc, hs, installs, dropped>>

\* conn.Write(pskHash[:]); on error close, sleep, retry.
TlsSendPSK ==
    /\ off.pc = "sendPSK"
    /\ LET c == off.conn
       IN \E o \in ClientWriteOutcomes(c) :
            IF o = "error"
            THEN /\ net' = [net EXCEPT ![c].oClosed = TRUE]
                 /\ off' = [off EXCEPT !.pc = "sleep", !.conn = Nil]
            ELSE /\ net' = IF o = "sent"
                           THEN [net EXCEPT
                                   ![c].proof = Sha256(psk.offramp),
                                   ![c].wrong = (Sha256(psk.offramp)
                                                 # Sha256(psk.bridge))]
                           ELSE net
                 /\ off' = [off EXCEPT !.pc = "readStatus"]
    /\ UNCHANGED <<psk, sup, tgt, rt, cmp, fwd, nextConn, backlog, tconn, mu, acc, hs, installs, dropped>>

\* conn.Read(resp): an error or a nonzero byte closes the connection, sleeps
\* and retries. On success: go handleConnection(conn, config), and main
\* blocks in <-sigChan.
TlsReadStatus ==
    /\ off.pc = "readStatus"
    /\ LET c == off.conn
           fail == /\ net' = [net EXCEPT ![c].oClosed = TRUE]
                   /\ off' = [off EXCEPT !.pc = "sleep", !.conn = Nil]
       IN IF net[c].killed
          THEN fail
          ELSE IF net[c].reply # <<>>
          THEN IF Head(net[c].reply) = 0
               THEN /\ net' = [net EXCEPT ![c].reply = Tail(@)]
                    /\ off' = [off EXCEPT !.pc = "waitSignal",
                                          !.hpc = "readReq"]
               ELSE fail
          ELSE /\ net[c].bClosed
               /\ fail
    /\ UNCHANGED <<psk, sup, tgt, rt, cmp, fwd, nextConn, backlog, tconn, mu, acc, hs, installs, dropped>>

\* time.Sleep(5 * time.Second); continue
TlsSleep ==
    /\ off.pc = "sleep"
    /\ off' = [off EXCEPT !.pc = "dial"]
    /\ UNCHANGED <<psk, sup, tgt, rt, cmp, fwd, nextConn, net, backlog, tconn, mu, acc, hs, installs, dropped>>

\* <-sigChan; conn.Close(); os.Exit(0): the operator stops the process.
TlsSignal ==
    /\ off.pc = "waitSignal"
    /\ net' = [net EXCEPT ![off.conn].oClosed = TRUE]
    /\ off' = [off EXCEPT !.pc = "exited", !.hpc = "none", !.buf = <<>>,
                          !.req = Nil, !.intact = TRUE]
    /\ UNCHANGED <<psk, sup, tgt, rt, cmp, fwd, nextConn, backlog, tconn, mu, acc, hs, installs, dropped>>

\* handleConnection returns: the deferred conn.Close() runs and the
\* goroutine ends. main is not told.
TlsReturn(c) ==
    [off EXCEPT !.hpc = "returned", !.buf = <<>>, !.req = Nil, !.intact = TRUE]

\* handleConnection: http.ReadRequest(bufio.NewReader(conn)); any error
\* returns.
TlsReadRequest ==
    /\ off.hpc = "readReq"
    /\ LET c == off.conn
       IN IF net[c].toOff # <<>>
          THEN \E k \in 1..Len(net[c].toOff) :
                 LET buf == off.buf \o SubSeq(net[c].toOff, 1, k)
                     rest == SubSeq(net[c].toOff, k + 1, Len(net[c].toOff))
                 IN IF Malformed(buf)
                    THEN /\ net' = [net EXCEPT ![c].oClosed = TRUE,
                                               ![c].toOff = rest]
                         /\ off' = TlsReturn(c)
                    ELSE /\ net' = [net EXCEPT ![c].toOff = rest]
                         /\ off' = IF Complete(buf)
                                   THEN [off EXCEPT !.hpc = "dispatch",
                                                    !.buf = <<>>,
                                                    !.req = buf[1].req,
                                                    !.intact = Intact(buf)]
                                   ELSE [off EXCEPT !.buf = buf]
          ELSE /\ ClientReadFails(c)
               /\ net' = [net EXCEPT ![c].oClosed = TRUE]
               /\ off' = TlsReturn(c)
    /\ UNCHANGED <<psk, sup, tgt, rt, cmp, fwd, nextConn, backlog, tconn, mu, acc, hs, installs, dropped>>

\* handleConnection: net.Dial to the target, req.Write, http.ReadResponse,
\* resp.Write(conn). A failure of any of them returns (closing the tunnel
\* connection) without a response for the request.
TlsDispatch ==
    /\ off.hpc = "dispatch"
    /\ LET c == off.conn
       IN \/ /\ net' = [net EXCEPT ![c].oClosed = TRUE]
             /\ dropped' = dropped \cup {off.req}
             /\ off' = TlsReturn(c)
          \/ \E o \in ClientWriteOutcomes(c) :
               IF o = "error"
               THEN /\ net' = [net EXCEPT ![c].oClosed = TRUE]
                    /\ dropped' = dropped
                    /\ off' = TlsReturn(c)
               ELSE /\ net' = IF o = "sent"
                              THEN [net EXCEPT ![c].toBridge =
                                       Append(@, [req |-> off.req])]
                              ELSE net
                    /\ dropped' = dropped
                    /\ off' = [off EXCEPT !.hpc = "readReq", !.req = Nil,
                                          !.intact = TRUE]
    /\ UNCHANGED <<psk, sup, tgt, rt, cmp, fwd, nextConn, backlog, tconn, mu, acc, hs, installs>>

\* ---------------------------------------------------------- specification
Handler == \E h \in Handlers :
    \/ HandlerCheck(h) \/ HandlerWrite(h)
    \/ HandlerReadLock(h) \/ HandlerReadReturn(h)

Acceptor == AccAccept \/ AccReadProof \/ AccReply \/ AccStore

Offramp == OffDial \/ OffSendPSK \/ OffReadStatus \/ OffReadRequest
           \/ OffDispatch \/ OffSleep

Env ==
    \/ \E h \in Handlers : HandlerArrive(h)
    \/ \E c \in Conns : NetKill(c) \/ PeerClose(c)
    \/ PeerDial

Next == Handler \/ Acceptor \/ Offramp \/ Env

Spec == Init /\ [][Next]_vars

\* The program with a quiet network: requests arrive, the target may fail,
\* but no connection is reset and nobody else dials the tunnel port. Every
\* goroutine that can take a step eventually takes one (the Go scheduler).
LiveNext == Handler \/ Acceptor \/ Offramp \/ \E h \in Handlers : HandlerArrive(h)

FairSpec ==
    /\ Init /\ [][LiveNext]_vars
    /\ \A h \in Handlers :
         WF_vars(HandlerCheck(h) \/ HandlerWrite(h)
                 \/ HandlerReadLock(h) \/ HandlerReadReturn(h))
    /\ WF_vars(Acceptor)
    /\ WF_vars(Offramp)

\* The same, with other clients dialing the tunnel port and keeping their
\* connections open: nothing is reset, nobody closes.
PeerNext == LiveNext \/ PeerDial

PeerFairSpec ==
    /\ Init /\ [][PeerNext]_vars
    /\ \A h \in Handlers :
         WF_vars(HandlerCheck(h) \/ HandlerWrite(h)
                 \/ HandlerReadLock(h) \/ HandlerReadReturn(h))
    /\ WF_vars(Acceptor)
    /\ WF_vars(Offramp)

\* The program on a network where the Offramp's dial may be answered by a
\* party other than the Bridge.
Adversary == \E c \in Conns : NetIntercept(c) \/ FakeStatus(c) \/ FakeRequest(c)

AdvNext == LiveNext \/ Adversary

AdvSpec == Init /\ [][AdvNext]_vars

\* manageTunnelConnection alone, every attempt failing or succeeding.
SupNext ==
    \/ SupCreateFails \/ SupCreateSucceeds \/ SupTrafficReturns
    \/ SupSleepFailed \/ SupSleepClosed

SupSpec == Init /\ [][SupNext]_vars

\* The program with a quiet network and a target that goes down and comes
\* back, watched by manageTargetConnection.
TargetManager == TargetCreate \/ TargetSleep

TargetNext == LiveNext \/ TargetManager \/ Probe \/ TargetFlip

TargetSpec == Init /\ [][TargetNext]_vars

TargetFairSpec ==
    /\ TargetSpec
    /\ \A h \in Handlers :
         WF_vars(HandlerCheck(h) \/ HandlerWrite(h)
                 \/ HandlerReadLock(h) \/ HandlerReadReturn(h))
    /\ WF_vars(Acceptor)
    /\ WF_vars(Offramp)
    /\ WF_vars(TargetManager)
    /\ WF_vars(Probe)

\* One request followed from the caller to the target and back.
RtNext == RtArrive \/ RtForward \/ RtDispatch \/ RtRespond \/ RtReturn

RoundTripSpec == Init /\ [][RtNext]_vars

\* The program with a quiet network and clients that may cancel.
CancelNext == LiveNext \/ \E h \in Handlers : ClientCancel(h)

CancelFairSpec ==
    /\ Init /\ [][CancelNext]_vars
    /\ \A h \in Handlers :
         WF_vars(HandlerCheck(h) \/ HandlerWrite(h)
                 \/ HandlerReadLock(h) \/ HandlerReadReturn(h))
    /\ WF_vars(Acceptor)
    /\ WF_vars(Offramp)

\* compareHashes alone, on every pair of inputs.
CmpNext == CmpCall \/ CmpStep

CmpSpec == Init /\ [][CmpNext]_vars

\* One request from the tunnel to the target, on every request of the set.
FwdNext ==
    FwdArrive \/ FwdReadRequest \/ FwdNewRequest \/ FwdCopyHeader \/ FwdDo

ForwardSpec == Init /\ [][FwdNext]_vars

\* The TLS variant of the Offramp against the same Bridge.
TlsMain == TlsDial \/ TlsSendPSK \/ TlsReadStatus \/ TlsSleep
TlsHandleConnection == TlsReadRequest \/ TlsDispatch

TlsNext ==
    \/ Handler \/ Acceptor \/ TlsMain \/ TlsHandleConnection
    \/ TlsSignal
    \/ \E h \in Handlers : HandlerArrive(h)
    \/ \E c \in Conns : NetKill(c)

TlsSpec == Init /\ [][TlsNext]_vars

TlsFairSpec ==
    /\ TlsSpec
    /\ \A h \in Handlers :
         WF_vars(HandlerCheck(h) \/ HandlerWrite(h)
                 \/ HandlerReadLock(h) \/ HandlerReadReturn(h))
    /\ WF_vars(Acceptor)
    /\ WF_vars(TlsMain)
    /\ WF_vars(TlsHandleConnection)


\* ------------------------------------------------------------ properties
Done(h) == hs[h].pc = "done"
\* The Bridge end of c is usable and its peer has not gone.
Healthy(c) == ~net[c].bClosed /\ ~net[c].oClosed /\ ~net[c].killed
\* A handler blocked in t.conn.Read: nothing buffered, no error to return.
Blocked(h) ==
    /\ hs[h].pc = "reading"
    /\ net[hs[h].rconn].toBridge = <<>>
    /\ ~BridgeReadFails(hs[h].rconn)

\* C1: a connection whose proof is not the digest of the Bridge's PSK (a
\* wrong digest, or fewer than 32 bytes) is never stored in tunnelConn.conn;
\* no handler writes a request to it or reads a response from it.
Inv_C1_WrongProofNeverInstalled ==
    \A c \in Conns :
        net[c].wrong =>
            /\ c \notin installs
            /\ tconn # c
            /\ \A h \in Handlers : c \notin hs[h].wconns /\ hs[h].rconn # c

\* C1 witness: the acceptor has read and rejected a connection with a wrong
\* proof while an authenticated connection is installed and in use.
Wit_C1_Rejected ==
    \E c \in Conns :
        /\ net[c].wrong /\ net[c].dialer = "peer" /\ net[c].bClosed
        /\ acc.conn # c
        /\ tconn # Nil
        /\ \E h \in Handlers : hs[h].wconns # {}

\* C2 (as claimed): over one established tunnel connection, every handler
\* that returns a response returns the response to its own request.
Cex_C2_NoCrossTalk ==
    Cardinality(installs) = 1 =>
        \A h \in Handlers :
            Done(h) /\ hs[h].resp # Nil => hs[h].resp = h

\* C3 (as claimed): a handler whose read happens on a connection other than
\* the one it wrote its request to ends with an error and returns no bytes
\* read from the newer connection.
Cex_C3_NeverMigrated ==
    \A h \in Handlers :
        Done(h) /\ hs[h].rconn # Nil /\ hs[h].rconn \notin hs[h].wconns =>
            hs[h].resp = Nil /\ hs[h].status = StatusBadGateway

\* C4 (as claimed): the Offramp never goes on to the next request having
\* left a request whose dispatch failed without a response on the tunnel.
Cex_C4_FailureAnswered ==
    off.pc = "readReq" => dropped = {}

\* C5 (as claimed): a handler whose request was in flight on a connection
\* when that connection was reset returns 502, never a success status.
Cex_C5_KilledGives502 ==
    \A h \in Handlers :
        Done(h) /\ hs[h].cut => hs[h].status = StatusBadGateway

\* C6 (as claimed): once the Offramp has reconnected after a loss and the
\* Bridge has installed the fresh connection, a request issued after that,
\* with connection and target working, is answered with its own response.
Reconnected ==
    /\ off.losses >= 1
    /\ off.pc \in {"readReq", "dispatch"}
    /\ tconn = off.conn
Cex_C6_AnsweredAfterReconnect ==
    \A h \in Handlers :
        /\ Done(h) /\ Reconnected /\ hs[h].born = Cardinality(installs)
        /\ Healthy(tconn) /\ dropped = {}
        => hs[h].status = 200 /\ hs[h].resp = h

\* C7 (as claimed): in the TLS variant, once handleConnection has returned
\* (the tunnel connection is lost) the main loop goes on to reconnect.
Cex_C7_TlsReconnects ==
    (off.hpc = "returned") ~> (off.pc # "waitSignal")

\* C8 (as claimed): after a request has failed at the target, that request
\* ends with an error and every other request still gets its own response.
Cex_C8_TargetFailureIsolated ==
    dropped # {} =>
        \A h \in Handlers :
            Done(h) /\ hs[h].wconns # {} =>
                IF h \in dropped
                THEN hs[h].status = StatusBadGateway
                ELSE hs[h].resp # Nil => hs[h].resp = h

\* C9 (as claimed): a handler waiting for its response eventually completes,
\* also when no byte arrives for it.
Cex_C9_HandlerCompletes ==
    \A h \in Handlers : (hs[h].pc = "reading") ~> Done(h)

\* C10 (as claimed): the acceptor, once it has authenticated a connection,
\* installs it without waiting for a handler that is blocked reading the old
\* connection (here: the connection of the Offramp, still open).
Cex_C10_InstallNotBlocked ==
    acc.pc = "store" =>
        ~(mu # Nil /\ Blocked(mu) /\ net[hs[mu].rconn].dialer = "offramp")

\* C11: at every instant at most one installed connection has its Bridge end
\* open, and it is the one tunnelConn.conn points to; every other connection
\* ever installed has been closed by the store that replaced it, and a
\* handler holding tunnelConn.mu sees exactly the installed connection.
Inv_C11_AtMostOneInstalledOpen ==
    /\ \A c \in installs : ~net[c].bClosed => c = tconn
    /\ tconn # Nil => tconn \in installs
    /\ mu # Nil => hs[mu].rconn = tconn

\* C11 witness: a second authenticated connection has replaced the first
\* while a handler that wrote to the first is still in progress.
Wit_C11_Replaced ==
    /\ Cardinality(installs) = 2
    /\ ~net[tconn].bClosed
    /\ \E c \in installs : c # tconn /\ net[c].bClosed
    /\ \E h \in Handlers : ~Done(h) /\ hs[h].wconns # {} /\ tconn \notin hs[h].wconns

\* C12 (as claimed): a handler that makes its availability check while no
\* session is active (no connection was ever installed, or the installed one
\* is closed or reset) ends there with the not-available status and goes on
\* to no tunnel I/O.
NoSession == tconn = Nil \/ ~Healthy(tconn)
Cex_C12_NoSessionFailsAtCheck ==
    [][\A h \in Handlers :
          hs[h].pc = "check" /\ hs'[h].pc # "check" /\ NoSession =>
              /\ hs'[h].pc = "done"
              /\ hs'[h].status = StatusVariantAlsoNegotiates]_vars

\* C13 (as claimed): a connection of another client that is at the acceptor
\* with fewer than 32 proof bytes delivered, and stays open, is eventually
\* closed by the Bridge (so that the acceptor moves on to later connections).
Cex_C13_ShortProofRejected ==
    \A c \in Conns :
        (/\ acc.pc = "readProof" /\ acc.conn = c
         /\ net[c].dialer = "peer" /\ Len(net[c].proof) < HashLen)
        ~> net[c].bClosed

\* C14 (as claimed): when the acceptor turns away a connection that has
\* delivered a complete 32-byte proof, it has written one nonzero status byte
\* to it before closing it.
Cex_C14_WrongProofGetsStatus ==
    [][/\ acc.pc = "readProof"
       /\ Len(net[acc.conn].proof) >= HashLen
       /\ net'[acc.conn].bClosed
       => /\ net'[acc.conn].reply # <<>>
          /\ Head(net'[acc.conn].reply) # 0]_vars

\* C15 (as claimed): the Offramp dispatches to the target only requests that
\* arrived on a connection whose far end is the Bridge holding the PSK; a
\* party that only answered the handshake with 0 gets nothing dispatched.
Cex_C15_DispatchOnlyFromBridge ==
    off.pc = "dispatch" =>
        /\ ~Intercepted(off.conn)
        /\ off.req # Forged

\* C16: the waits slept since the last successful authentication form a
\* non-decreasing sequence, none exceeds the largest delay the supervisor
\* has (the cap), and the first of them is the base delay.
Inv_C16_WaitsNonDecreasingCapped ==
    /\ \A i \in 1..(Len(sup.waits) - 1) : sup.waits[i] <= sup.waits[i + 1]
    /\ \A i \in 1..Len(sup.waits) : sup.waits[i] <= RetryDelay
    /\ sup.waits # <<>> => sup.waits[1] = RetryDelay

\* C16 witness: three waits in a row after failed attempts that followed a
\* successful authentication.
Wit_C16_ThreeWaits ==
    /\ Len(sup.waits) >= 3
    /\ sup.attempts > Len(sup.waits) + 1

\* C17 (as claimed): the delay is not fixed: each wait after a failed attempt
\* is longer than the one before it, at most double, until a cap above the
\* base delay is reached.
Cex_C17_DelayDoubles ==
    \A i \in 1..(Len(sup.waits) - 1) :
        \/ sup.waits[i] < sup.waits[i + 1] /\ sup.waits[i + 1] <= 2 * sup.waits[i]
        \/ sup.waits[i] = sup.waits[i + 1] /\ sup.waits[i] > sup.waits[1]

\* The monitor has flagged the target: a probe failed and targetConn was
\* closed.
Unhealthy == tgt.mon = "returned" /\ tgt.conn = "closed"

\* C18 (as claimed): once the target is flagged Unhealthy and is reachable
\* again, a later probe succeeds and the status returns to Healthy (unless
\* the target goes down again first).
Cex_C18_MonitorRecovers ==
    (Unhealthy /\ tgt.up) ~> (tgt.conn = "open" \/ ~tgt.up)

\* C19 (as claimed): a request read from the tunnel while the target is
\* flagged Unhealthy is not passed on to the dispatch to the target.
Cex_C19_UnhealthyFailsFast ==
    [][Unhealthy /\ off.pc = "readReq" => off'.pc # "dispatch"]_vars

\* C20 (as claimed): on every tunnel connection, between two chunks of one
\* request on the wire there is no chunk of another request.
Cex_C20_RequestBytesContiguous ==
    \A c \in Conns :
        \A i, j \in 1..Len(net[c].toOff) :
            i < j /\ net[c].toOff[i].req = net[c].toOff[j].req =>
                \A k \in i..j : net[c].toOff[k].req = net[c].toOff[i].req

\* The last chunk of handler h's request is on the wire of c, not yet read.
OnWire(h, c) ==
    \E i \in 1..Len(net[c].toOff) :
        /\ net[c].toOff[i].req = h
        /\ net[c].toOff[i].idx = net[c].toOff[i].n

\* C21 (as claimed): a request written completely onto a tunnel connection
\* is eventually read and dispatched by the Offramp, unless the connection
\* stops being healthy first.
Cex_C21_NoRequestLost ==
    \A h \in Handlers : \A c \in Conns :
        (OnWire(h, c) /\ Healthy(c))
        ~> ((off.pc = "dispatch" /\ off.req = h) \/ ~Healthy(c))

\* C22 (as claimed): for one request in isolation, the body that reached the
\* target is the body the caller sent, and the status, headers and body the
\* caller receives are those the target returned.
Cex_C22_RoundTripIdentity ==
    rt.pc = "done" =>
        /\ rt.atTarget = rt.body
        /\ rt.out = rt.first

\* C23 (as claimed): tunnelConn.mu is never held while tunnel I/O is in
\* progress, so no handler at IsConnected or at Write finds the mutex held
\* by a handler blocked in a read of the Offramp's connection.
Cex_C23_MutexNotHeldAcrossIO ==
    \A h \in Handlers :
        hs[h].pc \in {"check", "write"} =>
            ~(/\ mu # Nil /\ mu # h /\ Blocked(mu)
              /\ net[hs[mu].rconn].dialer = "offramp")

\* C24 (as claimed): a handler whose client has cancelled while it waits
\* for the response stops waiting.
Cex_C24_CancelReleases ==
    \A h \in Handlers :
        (hs[h].cancelled /\ hs[h].pc = "reading") ~> Done(h)

\* The tunnel connections the Offramp dialed and has not closed.
OffOpen == {c \in Conns : net[c].dialer = "offramp" /\ ~net[c].oClosed}

\* The Offramp is inside createTunnelConnection's handshake.
InHandshake == off.pc \in {"sendPSK", "readStatus"}
\* The Offramp holds a connection it uses.
OffActive == off.pc \in {"sendPSK", "readStatus", "readReq", "dispatch"}

\* C25: every connection the Offramp dialed, other than the one it is
\* using, is closed at the Offramp's end, and the one in use is open; a
\* handshake that fails closes its connection and leads to the sleep; a
\* proof is sent only on a connection dialed in that very step, and a dial
\* follows only the start or the sleep.
Prop_C25_FailedHandshakeNotReused ==
    /\ [](/\ \A c \in Conns :
               net[c].dialer = "offramp" /\ c # off.conn => net[c].oClosed
          /\ OffActive => off.conn # Nil /\ ~net[off.conn].oClosed
          /\ ~OffActive => off.conn = Nil)
    /\ [][/\ InHandshake /\ off'.pc \notin {"sendPSK", "readStatus", "readReq"}
              => off'.pc = "sleep" /\ net'[off.conn].oClosed
          /\ off'.pc = "sendPSK" /\ off' # off
              => off.pc = "dial" /\ off'.conn = nextConn
          /\ off'.pc = "dial" /\ off.pc # "dial" => off.pc = "sleep"]_vars

\* C25 witness: the Offramp's first handshake failed (its key is not the
\* Bridge's: the Bridge closed the connection), the first connection is
\* closed, and the Offramp is in the handshake on a second one.
Wit_C25_SecondAttempt ==
    /\ psk.offramp # psk.bridge
    /\ InHandshake /\ off.conn = 2
    /\ net[1].dialer = "offramp" /\ net[1].oClosed /\ net[1].bClosed

\* C26 (as claimed): a finished call of compareHashes on two 32-byte inputs
\* has compared all 32 byte pairs, whatever the inputs.
Cex_C26_ConstantComparisons ==
    cmp.pc = "done" /\ Len(cmp.a) = HashLen /\ Len(cmp.b) = HashLen
        => cmp.n = HashLen

\* C27: tunnelConn.conn changes, and the installed connection is closed by
\* the Bridge, only in the store step, which follows only the step that
\* wrote the status byte; a step that turns a connection away leaves both
\* as they are.
Prop_C27_FailedHandshakeKeepsInstalled ==
    [][/\ (\/ tconn' # tconn
           \/ tconn # Nil /\ net'[tconn].bClosed # net[tconn].bClosed)
          => acc.pc = "store" /\ tconn' = acc.conn /\ acc'.pc = "accept"
       /\ acc'.pc = "store" /\ acc.pc # "store"
          => acc.pc = "reply" /\ acc'.conn = acc.conn
             /\ ~net'[acc.conn].bClosed
       /\ acc.pc \in {"readProof", "reply"} /\ acc'.pc = "accept"
          => /\ tconn' = tconn
             /\ net'[acc.conn].bClosed
             /\ tconn # Nil => net'[tconn].bClosed = net[tconn].bClosed]_vars

\* C27 witness: a connection accepted after the installed one was turned
\* away, and the installed one, the only one ever stored, is still open.
Wit_C27_RejectedAfterInstall ==
    /\ tconn # Nil /\ installs = {tconn} /\ ~net[tconn].bClosed
    /\ \E c \in Conns :
         c > tconn /\ net[c].bClosed /\ acc.conn # c /\ c \notin installs

\* C28: tunnelConn.conn is nil exactly while no handshake has succeeded; no
\* step sets it back to nil; and a request that arrived after the first
\* install is never answered 506, whatever became of the connection.
Prop_C28_NeverBackToNil ==
    /\ [](/\ IsConnected <=> installs # {}
          /\ \A h \in Handlers :
               hs[h].born >= 1 => hs[h].status # StatusVariantAlsoNegotiates)
    /\ [][IsConnected => IsConnected']_vars

\* C28 witness: the installed connection has failed or was closed by its
\* peer, IsConnected still holds, and a request that arrived after the install
\* passed the check and failed on the connection.
Wit_C28_ConnectedButDead ==
    /\ IsConnected
    /\ net[tconn].oClosed \/ net[tconn].killed
    /\ \E h \in Handlers :
         Done(h) /\ hs[h].born >= 1 /\ hs[h].status = StatusBadGateway

\* C29: wherever Write or Read of the Bridge's TunnelConnection is about to
\* be called, or its Read is in progress, the conn field it uses is not nil,
\* also when the connection was replaced since the handler's check; and the
\* health check goroutine, which calls targetConn.Close, exists only with a
\* stored target connection.
Inv_C29_NoNilDereference ==
    /\ \A h \in Handlers :
         /\ hs[h].pc \in {"write", "read"} => CurrentConn # Nil
         /\ hs[h].pc = "reading" => hs[h].rconn # Nil
    /\ tgt.mon = "ticking" => tgt.conn # "nil"
    /\ tgt.mon = "returned" => tgt.conn = "closed"

\* C29 witness: a handler that has written on one connection is about to
\* write on its replacement, and the health check goroutine has called
\* targetConn.Close.
Wit_C29_ReplacedBetweenCalls ==
    /\ \E h \in Handlers :
         /\ hs[h].pc = "write"
         /\ hs[h].wconns # {}
         /\ CurrentConn \notin hs[h].wconns
    /\ tgt.mon = "returned"

\* C30: the Offramp has at most one tunnel connection open; while
\* manageTunnelConnection sleeps or is about to dial it has none (the one
\* before was closed, whether its handshake failed or handleTunnelTraffic
\* returned); and handleTunnelTraffic, when it runs, runs on the open one.
Inv_C30_OneTunnelAtATime ==
    /\ Cardinality(OffOpen) <= 1
    /\ off.pc \in {"sleep", "dial"} => OffOpen = {}
    /\ off.pc \in {"readReq", "dispatch"} => OffOpen = {off.conn}

\* C30 witness: handleTunnelTraffic runs on a second established
\* connection after the first established one was lost and closed.
Wit_C30_SecondLoop ==
    /\ off.pc \in {"readReq", "dispatch"}
    /\ off.losses >= 1
    /\ \E c \in installs :
         c # off.conn /\ net[c].dialer = "offramp" /\ net[c].oClosed

\* C31 (as claimed): the request the target receives has the method, the
\* path, the query string and the header values of the request the Offramp
\* read from the tunnel.
Cex_C31_TargetRequestSame ==
    fwd.pc = "done" =>
        /\ fwd.atTarget.method = fwd.req.method
        /\ fwd.atTarget.path = fwd.req.path
        /\ fwd.atTarget.query = fwd.req.query
        /\ fwd.atTarget.header = fwd.req.header

=============================================================================
